---- MODULE Spec2Model ----
(***************************************************************************)
(* Model of the spelling game.                                             *)
(*                                                                          *)
(* Speech worker: one TextToSpeech instance (src/text_to_speech.py), its   *)
(* work queue, its worker thread and the pygame mixer it plays through.    *)
(* Dictionary: DictionaryManager.get_words_by_length                       *)
(* and load_dictionary (src/dictionary_manager.py).  Game: the SpellingGame *)
(* window and its event handlers (src/spelling_game.py).  Settings: the     *)
(* SettingsDialog (src/settings_dialog.py) and show_settings.               *)
(*                                                                          *)
(* Producers call speak(text); the worker thread runs _process_queue.      *)
(* Each worker action below is one stretch of _process_queue between two   *)
(* points where the outside world (the queue, the mixer, the file system,  *)
(* the network) can be observed or can decide an outcome.                   *)
(***************************************************************************)
EXTENDS Integers, Sequences, FiniteSets, TLC

(* ------------------------------ bounds --------------------------------- *)

\* Number of speak() calls made in one behaviour.
MaxSpeaks == 4

\* Number of speak() calls made in one behaviour of the fair specification.
MaxFairSpeaks == 3

(* --------------------------- program values ---------------------------- *)

\* A Python str is the sequence of its characters, so "" is <<>>.
\* The stop sentinel None is not a str: it is the one value here that is not
\* a sequence of single characters.
None == <<"<None>">>

\* Ordinary texts handed to speak(); the empty string is an ordinary text.
Texts == {<<>>, <<"a", "p", "p", "l", "e">>}

\* Everything a caller can hand to speak().
Items == Texts \cup {None}

\* Value of the worker's local variable text before the first get().
NoText == <<"<unassigned>">>

\* queue.Queue() is built without a maxsize: 0 means "no capacity bound".
maxsize == 0

VARIABLES
    queue,              \* self._queue: the items waiting, oldest first
    unfinished,         \* self._queue.unfinished_tasks
    engine_ready,       \* self.engine_ready
    TTS_AVAILABLE,      \* module flag: edge_tts could be imported
    PLAYBACK_AVAILABLE, \* module flag: pygame could be imported
    pc,                 \* where the worker thread is in _process_queue
    text,               \* the worker's local variable text
    playing,            \* pygame.mixer.music.get_busy()
    tmp_files,          \* temporary mp3 files that exist, by request number
    enqueued,           \* history: items put on the queue, in put order
    dequeued,           \* history: items the worker got, in get order
    calls,              \* history: synthesis / playback calls the worker made
    log,                \* history: diagnostics printed
    speak_calls,        \* history: number of speak() calls made
    raised,             \* history: some speak() call raised to its caller
    terminations,       \* history: number of times the worker thread ended
    dictionary,         \* dict_manager.dictionary: word -> details
    returned,           \* last call of get_words_by_length and its result
    settings,           \* self.settings
    current_word,       \* self.current_word
    current_definition, \* self.current_definition
    question_number,    \* self.question_number
    score,              \* self.score
    results,            \* self.results: (word, user_answer, correct) tuples
    word_list,          \* self.word_list: (word, definition) pairs
    frame,              \* which of the three frames is packed
    entry_state,        \* state of word_entry: "normal" or "disabled"
    entry_text,         \* content of word_entry
    submit_state,       \* state of submit_btn: "normal" or "disabled"
    submit_packed,      \* submit_btn is packed (visible in the game frame)
    action_packed,      \* action_button_frame (Try Again / Next) is packed
    return_bound,       \* word_entry has a <Return> binding to submit_answer
    feedback,           \* text of feedback_label
    timers,             \* pending root.after() callbacks, by callback
    game_log,           \* game_log.txt: the scores logged
    msgbox,             \* text of the last messagebox shown ("" before any)
    dialog,             \* the settings dialog: open or not, and its result
    callback_error,     \* exception that left a Tk callback uncaught, or ""
    tts_workers,        \* TextToSpeech worker threads the game has started
    cache_file,         \* dictionary_cache.json
    other               \* a second TextToSpeech instance, when there is one

\* The speech worker's variables.
ttsVars == <<queue, unfinished, engine_ready, TTS_AVAILABLE, PLAYBACK_AVAILABLE,
             pc, text, playing, tmp_files, enqueued, dequeued, calls, log,
             speak_calls, raised, terminations>>

\* The dictionary manager's variables.
dictVars == <<dictionary, returned, cache_file>>

\* The game window's variables: the game's own state and widgets, and the
\* message box.
playVars == <<settings, current_word, current_definition, question_number,
              score, results, word_list, frame, entry_state, entry_text,
              submit_state, submit_packed, action_packed, return_bound,
              feedback, timers, game_log>>
gameVars == <<playVars, msgbox>>

\* The settings dialog and what show_settings builds.
settingsVars == <<dialog, callback_error, tts_workers>>

\* Everything outside the first speech worker.
clientVars == <<dictVars, gameVars, settingsVars, other>>

vars == <<ttsVars, clientVars>>

\* Worker positions.  "get": blocked in self._queue.get() (line 75);
\* "l79": holding an ordinary text, before the first engine_ready test;
\* "l82": before the second engine_ready test;
\* "synth": inside asyncio.run(_synthesize_speech);
\* "l98": about to load and play; "busy": in the get_busy() polling loop;
\* "l104": about to unlink the temporary file; "stopped": thread ended.
WorkerPcs == {"get", "l79", "l82", "synth", "l98", "busy", "l104",
              "stopped"}

\* The request the worker is handling: the number of items it has got.
req == Len(dequeued)

LogEntry(msg, r) == [msg |-> msg, req |-> r]
Call(kind, r, t) == [kind |-> kind, req |-> r, text |-> t]

(* ------------------------------ queue.Queue ---------------------------- *)

\* Queue.put blocks while the queue is full; maxsize <= 0 is never full.
put_waits_when_full(q) == Len(q) < 1
put_can_proceed(q) == maxsize <= 0 \/ Len(q) < maxsize

\* Queue._put: append on the right.
put_lifo(q, item) == <<item>> \o q
put(q, item) == Append(q, item)

\* Queue._get: popleft.
get_item_sentinel_first(q) ==
    IF \E i \in DOMAIN q : q[i] = None THEN None ELSE Head(q)
get_item(q) == Head(q)
get_rest(q) == Tail(q)

\* Line 76: "if text is None".
is_falsy(item) == item = None \/ item = <<>>
is_sentinel(item) == item = None

\* Queue.task_done: one unfinished task less.
task_done(u) == u - 1

(* ------------------------------- speak --------------------------------- *)

\* speak(text): try: self._queue.put(text); except Exception: print(...).
\* put_ok = FALSE is a put that raises (for example MemoryError).
speak_no_try(q, u, lg, item, put_ok) ==
    IF put_ok
    THEN [queue |-> put(q, item), unfinished |-> u + 1, log |-> lg,
          raises |-> FALSE, put_done |-> TRUE]
    ELSE [queue |-> q, unfinished |-> u, log |-> lg,
          raises |-> TRUE, put_done |-> FALSE]
speak(q, u, lg, item, put_ok) ==
    IF put_ok
    THEN [queue |-> put(q, item), unfinished |-> u + 1, log |-> lg,
          raises |-> FALSE, put_done |-> TRUE]
    ELSE [queue |-> q, unfinished |-> u,
          log |-> Append(lg, LogEntry("TTS enqueue error", 0)),
          raises |-> FALSE, put_done |-> FALSE]

SpeakInitsEngine(item, put_ok) ==
    /\ UNCHANGED clientVars
    /\ speak_calls < MaxSpeaks
    /\ put_can_proceed(queue)
    /\ LET r == speak(queue, unfinished, log, item, put_ok) IN
        /\ queue' = r.queue
        /\ unfinished' = r.unfinished
        /\ log' = r.log
        /\ raised' = (raised \/ r.raises)
        /\ enqueued' = IF r.put_done THEN Append(enqueued, item) ELSE enqueued
    /\ speak_calls' = speak_calls + 1
    /\ engine_ready' = TRUE
    /\ UNCHANGED <<TTS_AVAILABLE, PLAYBACK_AVAILABLE, pc, text,
                   playing, tmp_files, dequeued, calls, terminations>>

\* What one call self.speak(item) does to the instance.
SpeakCall(item, put_ok) ==
    /\ put_can_proceed(queue)
    /\ LET r == speak(queue, unfinished, log, item, put_ok) IN
        /\ queue' = r.queue
        /\ unfinished' = r.unfinished
        /\ log' = r.log
        /\ raised' = (raised \/ r.raises)
        /\ enqueued' = IF r.put_done THEN Append(enqueued, item) ELSE enqueued
    /\ speak_calls' = speak_calls + 1
    /\ UNCHANGED <<engine_ready, TTS_AVAILABLE, PLAYBACK_AVAILABLE, pc, text,
                   playing, tmp_files, dequeued, calls, terminations>>

\* A producer thread calls speak(item).
Speak(item, put_ok) ==
    /\ UNCHANGED clientVars
    /\ speak_calls < MaxSpeaks
    /\ SpeakCall(item, put_ok)

(* ------------------------------- worker -------------------------------- *)

InitEager ==
    /\ queue = <<>>
    /\ unfinished = 0
    /\ engine_ready = TRUE
    /\ TTS_AVAILABLE \in BOOLEAN
    /\ PLAYBACK_AVAILABLE \in BOOLEAN
    /\ pc = "get"
    /\ text = NoText
    /\ playing = FALSE
    /\ tmp_files = {}
    /\ enqueued = <<>>
    /\ dequeued = <<>>
    /\ calls = <<>>
    /\ log = <<>>
    /\ speak_calls = 0
    /\ raised = FALSE
    /\ terminations = 0

Init ==
    /\ queue = <<>>
    /\ unfinished = 0
    /\ engine_ready = FALSE
    /\ TTS_AVAILABLE \in BOOLEAN
    /\ PLAYBACK_AVAILABLE \in BOOLEAN
    /\ pc = "get"
    /\ text = NoText
    /\ playing = FALSE
    /\ tmp_files = {}
    /\ enqueued = <<>>
    /\ dequeued = <<>>
    /\ calls = <<>>
    /\ log = <<>>
    /\ speak_calls = 0
    /\ raised = FALSE
    /\ terminations = 0

GetAfterStop ==
    /\ UNCHANGED clientVars
    /\ pc \in {"get", "stopped"}
    /\ queue # <<>>
    /\ text' = get_item(queue)
    /\ queue' = get_rest(queue)
    /\ dequeued' = Append(dequeued, get_item(queue))
    /\ IF is_sentinel(get_item(queue))
       THEN /\ pc' = "stopped"
            /\ terminations' = terminations + 1
       ELSE /\ pc' = "l79"
            /\ UNCHANGED terminations
    /\ UNCHANGED <<unfinished, engine_ready, TTS_AVAILABLE, PLAYBACK_AVAILABLE,
                   playing, tmp_files, enqueued, calls, log, speak_calls,
                   raised>>

GetContinuesOnSentinel ==
    /\ UNCHANGED clientVars
    /\ pc = "get"
    /\ queue # <<>>
    /\ text' = get_item(queue)
    /\ queue' = get_rest(queue)
    /\ dequeued' = Append(dequeued, get_item(queue))
    /\ pc' = IF is_sentinel(get_item(queue)) THEN "get" ELSE "l79"
    /\ UNCHANGED <<unfinished, engine_ready, TTS_AVAILABLE, PLAYBACK_AVAILABLE,
                   playing, tmp_files, enqueued, calls, log, speak_calls,
                   raised, terminations>>

\* Lines 75-77: text = self._queue.get(); if text is None: break.
Get ==
    /\ UNCHANGED clientVars
    /\ pc = "get"
    /\ queue # <<>>
    /\ text' = get_item(queue)
    /\ queue' = get_rest(queue)
    /\ dequeued' = Append(dequeued, get_item(queue))
    /\ IF is_sentinel(get_item(queue))
       THEN /\ pc' = "stopped"
            /\ terminations' = terminations + 1
       ELSE /\ pc' = "l79"
            /\ UNCHANGED terminations
    /\ UNCHANGED <<unfinished, engine_ready, TTS_AVAILABLE, PLAYBACK_AVAILABLE,
                   playing, tmp_files, enqueued, calls, log, speak_calls,
                   raised>>

\* _init_engine (lines 49-63), called with engine_ready = ready.
\* mixer_ok = FALSE is a pygame.mixer.init() that raises.
_init_engine(ready, tts, playback, mixer_ok) ==
    IF ~tts THEN [ready |-> ready, msg |-> "Edge TTS not available"]
    ELSE IF ~playback
    THEN [ready |-> ready, msg |-> "pygame not available for audio playback"]
    ELSE IF mixer_ok
    THEN [ready |-> TRUE, msg |-> "Edge TTS engine initialized in worker thread"]
    ELSE [ready |-> FALSE, msg |-> "TTS initialization error (worker)"]

needs_init_always(ready) == TRUE
\* Line 79: the worker calls _init_engine exactly when engine_ready is false.
needs_init(ready) == ~ready

\* Lines 79-80: if not self.engine_ready: self._init_engine().
EnsureEngine(mixer_ok) ==
    /\ UNCHANGED clientVars
    /\ pc = "l79"
    /\ IF needs_init(engine_ready)
       THEN LET r == _init_engine(engine_ready, TTS_AVAILABLE,
                                  PLAYBACK_AVAILABLE, mixer_ok) IN
            /\ engine_ready' = r.ready
            /\ log' = Append(log, LogEntry(r.msg, req))
       ELSE UNCHANGED <<engine_ready, log>>
    /\ pc' = "l82"
    /\ UNCHANGED <<queue, unfinished, TTS_AVAILABLE, PLAYBACK_AVAILABLE, text,
                   playing, tmp_files, enqueued, dequeued, calls, speak_calls,
                   raised, terminations>>

NoEngineExits ==
    /\ UNCHANGED clientVars
    /\ pc = "l82"
    /\ ~engine_ready
    /\ log' = Append(log, LogEntry("(no engine) would speak", req))
    /\ unfinished' = task_done(unfinished)
    /\ pc' = "stopped"
    /\ UNCHANGED <<queue, engine_ready, TTS_AVAILABLE, PLAYBACK_AVAILABLE, text,
                   playing, tmp_files, enqueued, dequeued, calls, speak_calls,
                   raised, terminations>>

\* Lines 82-85: no engine: print, task_done(), continue.
NoEngine ==
    /\ UNCHANGED clientVars
    /\ pc = "l82"
    /\ ~engine_ready
    /\ log' = Append(log, LogEntry("(no engine) would speak", req))
    /\ unfinished' = task_done(unfinished)
    /\ pc' = "get"
    /\ UNCHANGED <<queue, engine_ready, TTS_AVAILABLE, PLAYBACK_AVAILABLE, text,
                   playing, tmp_files, enqueued, dequeued, calls, speak_calls,
                   raised, terminations>>

SpeakErrorEndsWorker ==
    /\ log' = Append(log, LogEntry("TTS speak error", req))
    /\ unfinished' = task_done(unfinished)
    /\ pc' = "stopped"

\* Lines 109-112: an exception inside the inner try is printed, then the
\* finally clause marks the task done and the loop goes back to get().
SpeakError ==
    /\ log' = Append(log, LogEntry("TTS speak error", req))
    /\ unfinished' = task_done(unfinished)
    /\ pc' = "get"

\* Lines 82, 89-95: with a ready engine, create the temporary file and enter
\* asyncio.run(self._synthesize_speech(text, tmp_path)).
MakeTempFile(ok) ==
    /\ UNCHANGED clientVars
    /\ pc = "l82"
    /\ engine_ready
    /\ IF ok
       THEN /\ tmp_files' = tmp_files \cup {req}
            /\ calls' = Append(calls, Call("synthesize", req, text))
            /\ pc' = "synth"
            /\ UNCHANGED <<log, unfinished>>
       ELSE /\ SpeakError
            /\ UNCHANGED <<tmp_files, calls>>
    /\ UNCHANGED <<queue, engine_ready, TTS_AVAILABLE, PLAYBACK_AVAILABLE, text,
                   playing, enqueued, dequeued, speak_calls, raised,
                   terminations>>

SynthesizeIgnoresFailure(ok) ==
    /\ UNCHANGED clientVars
    /\ pc = "synth"
    /\ pc' = "l98"
    /\ log' = IF ok THEN log
              ELSE Append(log, LogEntry("TTS speak error", req))
    /\ UNCHANGED unfinished
    /\ UNCHANGED <<queue, engine_ready, TTS_AVAILABLE, PLAYBACK_AVAILABLE, text,
                   playing, tmp_files, enqueued, dequeued, calls, speak_calls,
                   raised, terminations>>

\* Line 95: the synthesis returns or raises.
Synthesize(ok) ==
    /\ UNCHANGED clientVars
    /\ pc = "synth"
    /\ IF ok
       THEN /\ pc' = "l98"
            /\ UNCHANGED <<log, unfinished>>
       ELSE SpeakError
    /\ UNCHANGED <<queue, engine_ready, TTS_AVAILABLE, PLAYBACK_AVAILABLE, text,
                   playing, tmp_files, enqueued, dequeued, calls, speak_calls,
                   raised, terminations>>

\* Lines 98-99: pygame.mixer.music.load(tmp_path); pygame.mixer.music.play().
\* play() returns at once; the mixer plays in the background.
LoadAndPlay(ok) ==
    /\ UNCHANGED clientVars
    /\ pc = "l98"
    /\ calls' = Append(calls, Call("play", req, text))
    /\ IF ok
       THEN /\ playing' = TRUE
            /\ pc' = "busy"
            /\ UNCHANGED <<log, unfinished>>
       ELSE /\ SpeakError
            /\ UNCHANGED playing
    /\ UNCHANGED <<queue, engine_ready, TTS_AVAILABLE, PLAYBACK_AVAILABLE, text,
                   tmp_files, enqueued, dequeued, speak_calls, raised,
                   terminations>>

\* The mixer reaches the end of the music it is playing.
MusicFinish ==
    /\ UNCHANGED clientVars
    /\ playing
    /\ playing' = FALSE
    /\ UNCHANGED <<queue, unfinished, engine_ready, TTS_AVAILABLE,
                   PLAYBACK_AVAILABLE, pc, text, tmp_files, enqueued, dequeued,
                   calls, log, speak_calls, raised, terminations>>

\* Line 100: while pygame.mixer.music.get_busy(): the loop is left when the
\* mixer is no longer busy.
busy_loop_skipped(busy) == TRUE
busy_loop_exits(busy) == ~busy

\* Lines 100-101: leave the polling loop.
WaitBusy ==
    /\ UNCHANGED clientVars
    /\ pc = "busy"
    /\ busy_loop_exits(playing)
    /\ pc' = "l104"
    /\ UNCHANGED <<queue, unfinished, engine_ready, TTS_AVAILABLE,
                   PLAYBACK_AVAILABLE, text, playing, tmp_files, enqueued,
                   dequeued, calls, log, speak_calls, raised, terminations>>

\* Lines 104-112: os.unlink(tmp_path) with its failure swallowed, then the
\* finally clause marks the task done.
Unlink(ok) ==
    /\ UNCHANGED clientVars
    /\ pc = "l104"
    /\ tmp_files' = IF ok THEN tmp_files \ {req} ELSE tmp_files
    /\ unfinished' = task_done(unfinished)
    /\ pc' = "get"
    /\ UNCHANGED <<queue, engine_ready, TTS_AVAILABLE, PLAYBACK_AVAILABLE, text,
                   playing, enqueued, dequeued, calls, log, speak_calls, raised,
                   terminations>>

(* ------------------------------- strings ------------------------------- *)

\* string.ascii_lowercase and string.ascii_uppercase, letter by letter.
ascii_lowercase == <<"a", "b", "c", "d", "e", "f", "g", "h", "i", "j", "k",
                     "l", "m", "n", "o", "p", "q", "r", "s", "t", "u", "v",
                     "w", "x", "y", "z">>
ascii_uppercase == <<"A", "B", "C", "D", "E", "F", "G", "H", "I", "J", "K",
                     "L", "M", "N", "O", "P", "Q", "R", "S", "T", "U", "V",
                     "W", "X", "Y", "Z">>

Letters == {ascii_lowercase[i] : i \in DOMAIN ascii_lowercase}
             \cup {ascii_uppercase[i] : i \in DOMAIN ascii_uppercase}

\* str.isalpha(): at least one character and every character a letter.
str_isalpha(w) == Len(w) > 0 /\ \A i \in DOMAIN w : w[i] \in Letters

\* str.lower(), character by character.
char_lower(c) ==
    IF \E i \in DOMAIN ascii_uppercase : ascii_uppercase[i] = c
    THEN ascii_lowercase[CHOOSE i \in DOMAIN ascii_uppercase :
                            ascii_uppercase[i] = c]
    ELSE c
str_lower(t) == [i \in DOMAIN t |-> char_lower(t[i])]

\* str.strip(): drop the whitespace at both ends.
Whitespace == {" ", "\t", "\n"}
str_no_strip(s) == s
str_strip(t) ==
    LET kept == {i \in DOMAIN t : t[i] \notin Whitespace} IN
    IF kept = {} THEN <<>>
    ELSE SubSeq(t, CHOOSE i \in kept : \A j \in kept : i <= j,
                   CHOOSE i \in kept : \A j \in kept : j <= i)

(* ---------------------------- the dictionary --------------------------- *)

\* Longest length asked of get_words_by_length.
DictMaxLength == 7

\* Words and definitions standing in for the 528 entries of
\* _get_fallback_dictionary: three of its plain words and one of its
\* hyphenated ones, with shortened definition texts.
kiln == <<"k", "i", "l", "n">>
easel == <<"e", "a", "s", "e", "l">>
vessel == <<"v", "e", "s", "s", "e", "l">>
cd_rom == <<"c", "d", "-", "r", "o", "m">>
DictWords == {kiln, easel, vessel, cd_rom}

def_oven == <<"o", "v", "e", "n">>
def_stand == <<"s", "t", "a", "n", "d">>
def_ship == <<"s", "h", "i", "p">>
def_disc == <<"d", "i", "s", "c">>

\* One entry: {"meanings": [{"def": ...}, ...]}.
Details(defs) == [meanings |-> [i \in DOMAIN defs |-> [def |-> defs[i]]]]

\* An entry whose first meaning has no "def" key.
DetailsNoDef == [meanings |-> <<[speech_part |-> <<"n">>]>>]

\* _get_fallback_dictionary().
_get_fallback_dictionary ==
    [w \in DictWords |->
        IF w = kiln THEN Details(<<def_oven>>)
        ELSE IF w = easel THEN Details(<<def_stand>>)
        ELSE IF w = vessel THEN Details(<<def_ship>>)
        ELSE Details(<<def_disc>>)]

\* dict.get("def", ""): the value under "def", or "" when there is none.
get_def(meaning) == IF "def" \in DOMAIN meaning THEN meaning.def ELSE <<>>

\* get_words_by_length (lines 3104-3110).
get_words_by_length_no_isalpha(dict, min_length, max_length) ==
    [word \in {w \in DOMAIN dict :
                 min_length <= Len(w) /\ Len(w) <= max_length} |->
        get_def(dict[word].meanings[1])]
get_words_by_length(dict, min_length, max_length) ==
    [word \in {w \in DOMAIN dict :
                 /\ min_length <= Len(w) /\ Len(w) <= max_length
                 /\ str_isalpha(w)} |->
        get_def(dict[word].meanings[1])]

\* No call of get_words_by_length has returned yet.
NotCalled == [called |-> FALSE, min_length |-> 0, max_length |-> 0,
              result |-> <<>>]

\* A caller's step: dict_manager.get_words_by_length(min_length, max_length).
GetWordsByLength(min_length, max_length) ==
    /\ returned' = [called |-> TRUE, min_length |-> min_length,
                    max_length |-> max_length,
                    result |-> get_words_by_length(dictionary, min_length,
                                                   max_length)]
    /\ UNCHANGED <<dictionary, cache_file, ttsVars, gameVars, settingsVars,
                   other>>

(* ------------------------- the game window: state ---------------------- *)

\* dialog.result is None (settings_dialog.py line 14).
NoResult == [none |-> TRUE]

\* No settings dialog is open; result is what the last one left.
ClosedDialog(result) ==
    [open |-> FALSE, result |-> result, questions_var |-> <<>>,
     min_len_var |-> <<>>, max_len_var |-> <<>>, use_downloaded_var |-> FALSE]

\* No second TextToSpeech instance has been built.
NoInstance == [pc |-> "none"]

\* dictionary_cache.json: whether it exists, whether json.load accepts it,
\* and the dictionary it then holds.
CacheFile(exists, parses, data) ==
    [exists |-> exists, parses |-> parses, data |-> data]
NoCacheFile == CacheFile(FALSE, FALSE, <<>>)

\* SpellingGame.__init__ (lines 67-83, 91-98): settings, game state, widgets.
WindowInit ==
    /\ settings = [num_questions |-> 10, min_length |-> 5, max_length |-> 7,
                   use_downloaded_dict |-> FALSE,
                   voice |-> "en-GB-SoniaNeural"]
    /\ current_word = <<>>
    /\ current_definition = <<>>
    /\ question_number = 0
    /\ score = 0
    /\ results = <<>>
    /\ word_list = <<>>
    /\ frame = "start"
    /\ entry_state = "normal"
    /\ entry_text = <<>>
    /\ submit_state = "normal"
    /\ submit_packed = TRUE
    /\ action_packed = FALSE
    /\ return_bound = TRUE
    /\ feedback = ""
    /\ timers = [speak_word |-> 0, load_next_question |-> 0]
    /\ game_log = <<>>
    /\ msgbox = ""
    /\ dialog = ClosedDialog(NoResult)
    /\ callback_error = ""
    /\ tts_workers = 1

\* SpellingGame.__init__ (lines 67-98): TextToSpeech() is constructed at
\* line 89 and DictionaryManager(use_downloaded=False) holds the fallback
\* dictionary.
GameInit ==
    /\ Init
    /\ WindowInit
    /\ dictionary = _get_fallback_dictionary
    /\ returned = NotCalled
    /\ cache_file = NoCacheFile
    /\ other = NoInstance

(* ------------------- specification: the dictionary alone --------------- *)

\* Dictionaries a DictionaryManager can hold: any of the words, each with
\* one meaning, two meanings, or a first meaning without a definition.
DetailsChoices == {Details(<<def_oven>>), Details(<<def_ship, def_disc>>),
                   DetailsNoDef}

Dictionaries == UNION {[D -> DetailsChoices] : D \in SUBSET DictWords}

DictInit ==
    /\ Init
    /\ WindowInit
    /\ dictionary \in Dictionaries
    /\ returned = NotCalled
    /\ cache_file = NoCacheFile
    /\ other = NoInstance

DictNext ==
    \E min_length, max_length \in 3..DictMaxLength :
        GetWordsByLength(min_length, max_length)

DictSpec == DictInit /\ [][DictNext]_vars

(* --------------------- specification: the speech worker ---------------- *)

\* The worker thread's steps.
Worker ==
    \/ Get
    \/ \E mixer_ok \in BOOLEAN : EnsureEngine(mixer_ok)
    \/ NoEngine
    \/ \E ok \in BOOLEAN : MakeTempFile(ok)
    \/ \E ok \in BOOLEAN : Synthesize(ok)
    \/ \E ok \in BOOLEAN : LoadAndPlay(ok)
    \/ WaitBusy
    \/ \E ok \in BOOLEAN : Unlink(ok)

\* A producer thread's step.
Producer == \E item \in Items, put_ok \in BOOLEAN : Speak(item, put_ok)

Next ==
    \/ Producer
    \/ Worker
    \/ MusicFinish

Spec == GameInit /\ [][Next]_vars

\* The worker thread is scheduled whenever it can run, and music that is
\* playing comes to its end.
\* Liveness is checked with fewer speak() calls than safety.
FairProducer == speak_calls < MaxFairSpeaks /\ Producer

FairNext ==
    \/ FairProducer
    \/ Worker
    \/ MusicFinish

FairSpec ==
    /\ GameInit
    /\ [][FairNext]_vars
    /\ WF_vars(Worker) /\ WF_vars(MusicFinish)

(* ----------------------- the game window: handlers -------------------- *)

\* Number of speak() calls the game makes in one behaviour.
MaxGameSpeaks == 1

\* Number of root.after() callbacks of one kind pending at a time.
MaxTimers == 1

\* Number of game results written to the log file.
MaxGames == 1

\* What the player types into word_entry.
Answers == {<<" ">>, <<" ", "V", "e", "s", "s", "e", "l", " ">>}

\* f"Spell the word: {self.current_word}" (line 421).
SpellPrefix == <<"S", "p", "e", "l", "l", " ", "t", "h", "e", " ",
                 "w", "o", "r", "d", ":", " ">>
spell_text(word) == SpellPrefix \o word

\* "(skipped)" (line 453).
Skipped == <<"(", "s", "k", "i", "p", "p", "e", "d", ")">>

\* random.shuffle(word_items): every order of the items.
Orders(S) ==
    {o \in [1..Cardinality(S) -> S] :
        \A i, j \in 1..Cardinality(S) : o[i] = o[j] => i = j}

\* word_items[: n]: a negative n counts from the end of the list.
FirstN(sq, n) ==
    LET stop == IF n < 0 THEN Len(sq) + n ELSE n IN
    SubSeq(sq, 1, IF stop < 0 THEN 0 ELSE IF stop < Len(sq) THEN stop
                                         ELSE Len(sq))

\* self.tts.speak(item), called by a handler of the game.
TtsSpeak(item) ==
    /\ speak_calls < MaxGameSpeaks
    /\ \E put_ok \in BOOLEAN : SpeakCall(item, put_ok)

\* load_next_question (lines 387-417) and, when the list is used up,
\* show_results_frame (lines 310-342) with log_game_result (lines 504-514),
\* run with word list wl, question number qn, score sc, packed frame fr,
\* entry state es and pending timers tm.  log_ok = FALSE is a log file that
\* cannot be written.
LoadNextQuestion(wl, qn, sc, fr, es, tm, log_ok) ==
    IF qn >= Len(wl)
    THEN /\ Len(game_log) < MaxGames
         /\ frame' = "results"
         /\ game_log' = IF log_ok THEN Append(game_log, sc) ELSE game_log
         /\ entry_state' = es
         /\ timers' = tm
         /\ UNCHANGED <<current_word, current_definition, feedback,
                        submit_packed, action_packed, submit_state,
                        entry_text, return_bound>>
    ELSE /\ tm.speak_word < MaxTimers
         /\ current_word' = wl[qn + 1][1]
         /\ current_definition' = wl[qn + 1][2]
         /\ feedback' = ""
         /\ submit_packed' = TRUE
         /\ action_packed' = FALSE
         /\ entry_state' = "normal"
         /\ submit_state' = "normal"
         /\ entry_text' = <<>>
         /\ return_bound' = TRUE
         /\ timers' = [tm EXCEPT !.speak_word = @ + 1]
         /\ frame' = fr
         /\ UNCHANGED game_log

\* "Start New Game": start_new_game (lines 360-385).
StartNewGame ==
    /\ frame = "start"
    /\ question_number' = 0
    /\ score' = 0
    /\ results' = <<>>
    /\ LET available_words ==
               get_words_by_length(dictionary, settings.min_length,
                                   settings.max_length) IN
        /\ returned' = [called |-> TRUE, min_length |-> settings.min_length,
                        max_length |-> settings.max_length,
                        result |-> available_words]
        /\ \E order \in Orders(DOMAIN available_words) :
              word_list' =
                  FirstN([i \in DOMAIN order |->
                             <<order[i], available_words[order[i]]>>],
                         settings.num_questions)
    /\ msgbox' = IF Cardinality(DOMAIN returned'.result)
                         < settings.num_questions
                  THEN "Only ... words available"
                  ELSE msgbox
    /\ \E log_ok \in BOOLEAN :
          LoadNextQuestion(word_list', 0, 0, "game", entry_state, timers,
                           log_ok)
    /\ UNCHANGED <<settings, dictionary, cache_file, ttsVars, settingsVars,
                   other>>

\* Game > New Game, or "Play Again": show_start_frame (lines 298-302).
ShowStartFrameStopsSpeech ==
    /\ frame # "start"
    /\ frame' = "start"
    /\ speak_calls < MaxSpeaks
    /\ SpeakCall(None, TRUE)
    /\ UNCHANGED <<settingsVars, other, msgbox, settings,
                   current_word, current_definition,
                   question_number, score, results, word_list, entry_state,
                   entry_text, submit_state, submit_packed, action_packed,
                   return_bound, feedback, timers, game_log, dictVars>>
ShowStartFrame ==
    /\ frame # "start"
    /\ frame' = "start"
    /\ UNCHANGED <<settingsVars, other, msgbox, settings,
                   current_word, current_definition,
                   question_number, score, results, word_list, entry_state,
                   entry_text, submit_state, submit_packed, action_packed,
                   return_bound, feedback, timers, game_log, dictVars,
                   ttsVars>>

\* "Replay Word": speak_word (lines 419-422).
ReplayWord ==
    /\ frame = "game"
    /\ TtsSpeak(spell_text(current_word))
    /\ UNCHANGED clientVars

\* The after(300, self.speak_word) callback of line 417 comes due.
TimerSpeakWord ==
    /\ timers.speak_word > 0
    /\ timers' = [timers EXCEPT !.speak_word = @ - 1]
    /\ TtsSpeak(spell_text(current_word))
    /\ UNCHANGED <<settingsVars, other, msgbox, settings,
                   current_word, current_definition,
                   question_number, score, results, word_list, frame,
                   entry_state, entry_text, submit_state, submit_packed,
                   action_packed, return_bound, feedback, game_log, dictVars>>

\* The speaker button: speak_definition (lines 424-428).
SpeakDefinition ==
    /\ frame = "game"
    /\ IF current_definition # <<>>
       THEN TtsSpeak(current_definition)
       ELSE UNCHANGED ttsVars
    /\ UNCHANGED clientVars

\* The player edits the entry.
Type(answer) ==
    /\ frame = "game"
    /\ entry_state = "normal"
    /\ entry_text # answer
    /\ entry_text' = answer
    /\ UNCHANGED <<settingsVars, other, msgbox, settings,
                   current_word, current_definition,
                   question_number, score, results, word_list, frame,
                   entry_state, submit_state, submit_packed, action_packed,
                   return_bound, feedback, timers, game_log, dictVars,
                   ttsVars>>

\* The player can trigger submit_answer: the Submit button is visible and
\* enabled, or the entry has its <Return> binding.
CanSubmit ==
    /\ frame = "game"
    /\ \/ submit_packed /\ submit_state = "normal"
       \/ return_bound

SubmitAnswerCaseSensitive ==
    /\ CanSubmit
    /\ LET user_answer == str_strip(entry_text)
           correct_answer == current_word IN
       IF user_answer = <<>>
       THEN /\ msgbox' = "Please enter a word."
            /\ UNCHANGED playVars
       ELSE /\ entry_state' = "disabled"
            /\ submit_state' = "disabled"
            /\ return_bound' = FALSE
            /\ IF user_answer = correct_answer
               THEN /\ timers.load_next_question < MaxTimers
                    /\ score' = score + 1
                    /\ feedback' = "Correct!"
                    /\ results' = Append(results,
                                         <<current_word, user_answer, TRUE>>)
                    /\ question_number' = question_number + 1
                    /\ timers' = [timers EXCEPT !.load_next_question = @ + 1]
                    /\ UNCHANGED <<submit_packed, action_packed>>
               ELSE /\ feedback' = "Incorrect."
                    /\ submit_packed' = FALSE
                    /\ action_packed' = TRUE
                    /\ UNCHANGED <<score, results, question_number, timers>>
            /\ UNCHANGED <<settings, current_word, current_definition,
                           word_list, frame, entry_text, game_log, msgbox>>
    /\ UNCHANGED <<dictVars, ttsVars, settingsVars, other>>

SubmitAnswerRecordsIncorrect ==
    /\ CanSubmit
    /\ LET user_answer == str_lower(str_strip(entry_text))
           correct_answer == str_lower(current_word) IN
       IF user_answer = <<>>
       THEN /\ msgbox' = "Please enter a word."
            /\ UNCHANGED playVars
       ELSE /\ entry_state' = "disabled"
            /\ submit_state' = "disabled"
            /\ return_bound' = FALSE
            /\ IF user_answer = correct_answer
               THEN /\ timers.load_next_question < MaxTimers
                    /\ score' = score + 1
                    /\ feedback' = "Correct!"
                    /\ results' = Append(results,
                                         <<current_word, user_answer, TRUE>>)
                    /\ question_number' = question_number + 1
                    /\ timers' = [timers EXCEPT !.load_next_question = @ + 1]
                    /\ UNCHANGED <<submit_packed, action_packed>>
               ELSE /\ feedback' = "Incorrect."
                    /\ submit_packed' = FALSE
                    /\ action_packed' = TRUE
                    /\ results' = Append(results,
                                         <<current_word, user_answer, FALSE>>)
                    /\ UNCHANGED <<score, question_number, timers>>
            /\ UNCHANGED <<settings, current_word, current_definition,
                           word_list, frame, entry_text, game_log, msgbox>>
    /\ UNCHANGED <<dictVars, ttsVars, settingsVars, other>>

\* "Submit Answer" or <Return>: submit_answer (lines 463-502).
SubmitAnswer ==
    /\ CanSubmit
    /\ LET user_answer == str_lower(str_strip(entry_text))
           correct_answer == str_lower(current_word) IN
       IF user_answer = <<>>
       THEN /\ msgbox' = "Please enter a word."
            /\ UNCHANGED playVars
       ELSE /\ entry_state' = "disabled"
            /\ submit_state' = "disabled"
            /\ return_bound' = FALSE
            /\ IF user_answer = correct_answer
               THEN /\ timers.load_next_question < MaxTimers
                    /\ score' = score + 1
                    /\ feedback' = "Correct!"
                    /\ results' = Append(results,
                                         <<current_word, user_answer, TRUE>>)
                    /\ question_number' = question_number + 1
                    /\ timers' = [timers EXCEPT !.load_next_question = @ + 1]
                    /\ UNCHANGED <<submit_packed, action_packed>>
               ELSE /\ feedback' = "Incorrect."
                    /\ submit_packed' = FALSE
                    /\ action_packed' = TRUE
                    /\ UNCHANGED <<score, results, question_number, timers>>
            /\ UNCHANGED <<settings, current_word, current_definition,
                           word_list, frame, entry_text, game_log, msgbox>>
    /\ UNCHANGED <<dictVars, ttsVars, settingsVars, other>>

\* The after(1000, self.load_next_question) callback of line 489 comes due.
TimerLoadNext ==
    /\ timers.load_next_question > 0
    /\ \E log_ok \in BOOLEAN :
          LoadNextQuestion(word_list, question_number, score, frame,
                           entry_state,
                           [timers EXCEPT !.load_next_question = @ - 1],
                           log_ok)
    /\ UNCHANGED <<settingsVars, other, msgbox, settings,
                   question_number, score, results, word_list,
                   dictVars, ttsVars>>

\* "Try Again": try_again (lines 430-445).
TryAgain ==
    /\ frame = "game"
    /\ action_packed
    /\ entry_state' = "normal"
    /\ entry_text' = <<>>
    /\ feedback' = ""
    /\ action_packed' = FALSE
    /\ submit_packed' = TRUE
    /\ TtsSpeak(spell_text(current_word))
    /\ UNCHANGED <<settingsVars, other, msgbox, settings,
                   current_word, current_definition,
                   question_number, score, results, word_list, frame,
                   submit_state, return_bound, timers, game_log, dictVars>>

NextQuestionKeepsNumber ==
    /\ frame = "game"
    /\ action_packed
    /\ LET user_answer == str_lower(str_strip(entry_text)) IN
       results' = Append(results,
                         <<current_word,
                           IF user_answer # <<>> THEN user_answer ELSE Skipped,
                           FALSE>>)
    /\ question_number' = question_number
    /\ \E log_ok \in BOOLEAN :
          LoadNextQuestion(word_list, question_number, score, frame,
                           "normal", timers, log_ok)
    /\ UNCHANGED <<settingsVars, other, msgbox, settings,
                   score, word_list, dictVars, ttsVars>>

\* "Next": next_question (lines 447-461).
NextQuestion ==
    /\ frame = "game"
    /\ action_packed
    /\ LET user_answer == str_lower(str_strip(entry_text)) IN
       results' = Append(results,
                         <<current_word,
                           IF user_answer # <<>> THEN user_answer ELSE Skipped,
                           FALSE>>)
    /\ question_number' = question_number + 1
    /\ \E log_ok \in BOOLEAN :
          LoadNextQuestion(word_list, question_number + 1, score, frame,
                           "normal", timers, log_ok)
    /\ UNCHANGED <<settingsVars, other, msgbox, settings,
                   score, word_list, dictVars, ttsVars>>

(* ------------------------ specification: the game ---------------------- *)

\* The player's and the timers' steps.
Game ==
    \/ StartNewGame
    \/ ShowStartFrame
    \/ ReplayWord
    \/ TimerSpeakWord
    \/ SpeakDefinition
    \/ \E answer \in Answers : Type(answer)
    \/ SubmitAnswer
    \/ TimerLoadNext
    \/ TryAgain
    \/ NextQuestion

GameNext ==
    \/ Game
    \/ Worker
    \/ MusicFinish

GameSpec == GameInit /\ [][GameNext]_vars

(* --------------------------- the settings dialog ----------------------- *)

\* int(s) for a str s: surrounding whitespace and one sign are accepted,
\* then at least one decimal digit; anything else raises ValueError.
Digits == <<"0", "1", "2", "3", "4", "5", "6", "7", "8", "9">>
IsDigit(c) == \E i \in DOMAIN Digits : Digits[i] = c
digit_value(c) == (CHOOSE i \in DOMAIN Digits : Digits[i] = c) - 1

RECURSIVE digits_value(_)
digits_value(s) ==
    IF s = <<>> THEN 0
    ELSE 10 * digits_value(SubSeq(s, 1, Len(s) - 1)) + digit_value(s[Len(s)])

int(s) ==
    LET t == str_strip(s)
        signed == t # <<>> /\ t[1] \in {"-", "+"}
        body == IF signed THEN SubSeq(t, 2, Len(t)) ELSE t IN
    IF body # <<>> /\ \A i \in DOMAIN body : IsDigit(body[i])
    THEN [ok |-> TRUE,
          value |-> IF signed /\ t[1] = "-" THEN 0 - digits_value(body)
                    ELSE digits_value(body)]
    ELSE [ok |-> FALSE, value |-> 0]

\* str(n) for an int n.
RECURSIVE nat_str(_)
nat_str(n) ==
    IF n < 10 THEN <<Digits[n + 1]>>
    ELSE nat_str(n \div 10) \o <<Digits[(n % 10) + 1]>>
str(n) == IF n < 0 THEN <<"-">> \o nat_str(0 - n) ELSE nat_str(n)

\* What the player leaves in the "Number of Questions" spinbox.
QuestionTexts == {<<"-", "1">>, <<"x">>}

\* What the player leaves in the two word-length spinboxes.
LengthTexts == {<<"5">>, <<"7">>}

\* SettingsDialog.save (lines 76-97) with the three spinbox texts and the
\* checkbox: the result it stores, the error box it shows, and whether it
\* destroys the dialog.
save_with_voice(questions_var, min_len_var, max_len_var, use_downloaded_var) ==
    LET num_q == int(questions_var)
        min_len == int(min_len_var)
        max_len == int(max_len_var) IN
    IF ~(num_q.ok /\ min_len.ok /\ max_len.ok)
    THEN [result |-> NoResult, error |-> "Please enter valid numbers.",
          destroyed |-> FALSE]
    ELSE IF min_len.value > max_len.value
    THEN [result |-> NoResult,
          error |-> "Minimum length cannot be greater than maximum length.",
          destroyed |-> FALSE]
    ELSE [result |-> [num_questions |-> num_q.value,
                      min_length |-> min_len.value,
                      max_length |-> max_len.value,
                      use_downloaded_dict |-> use_downloaded_var,
                      voice |-> "en-US-AriaNeural"],
          error |-> "", destroyed |-> TRUE]
save_no_range_check(questions_var, min_len_var, max_len_var, use_downloaded_var) ==
    LET num_q == int(questions_var)
        min_len == int(min_len_var)
        max_len == int(max_len_var) IN
    IF ~(num_q.ok /\ min_len.ok /\ max_len.ok)
    THEN [result |-> NoResult, error |-> "Please enter valid numbers.",
          destroyed |-> FALSE]
    ELSE [result |-> [num_questions |-> num_q.value,
                      min_length |-> min_len.value,
                      max_length |-> max_len.value,
                      use_downloaded_dict |-> use_downloaded_var],
          error |-> "", destroyed |-> TRUE]
save(questions_var, min_len_var, max_len_var, use_downloaded_var) ==
    LET num_q == int(questions_var)
        min_len == int(min_len_var)
        max_len == int(max_len_var) IN
    IF ~(num_q.ok /\ min_len.ok /\ max_len.ok)
    THEN [result |-> NoResult, error |-> "Please enter valid numbers.",
          destroyed |-> FALSE]
    ELSE IF min_len.value > max_len.value
    THEN [result |-> NoResult,
          error |-> "Minimum length cannot be greater than maximum length.",
          destroyed |-> FALSE]
    ELSE [result |-> [num_questions |-> num_q.value,
                      min_length |-> min_len.value,
                      max_length |-> max_len.value,
                      use_downloaded_dict |-> use_downloaded_var],
          error |-> "", destroyed |-> TRUE]

(* ------------------- DictionaryManager: load_dictionary ---------------- *)

\* A dictionary found in dictionary_cache.json and the one served at
\* DICT_URL.
CachedDict == (kiln :> Details(<<def_oven>>)) @@ (easel :> Details(<<def_stand>>))
DownloadedDict == (vessel :> Details(<<def_ship, def_disc>>))

\* The cache file before the game first touches it: absent, unreadable as
\* JSON, or holding a dictionary.
CacheFiles == {NoCacheFile, CacheFile(TRUE, FALSE, <<>>),
               CacheFile(TRUE, TRUE, CachedDict)}

\* urlopen / gzip / json.loads of lines 45-48: raising, or the data.
Downloads == {[ok |-> FALSE, data |-> <<>>],
              [ok |-> TRUE, data |-> DownloadedDict]}

\* Writing the cache (lines 57-59): done, open() raising, json.dump raising
\* after open() has truncated the file.
Writes == {"written", "open raises", "dump raises"}

\* download_dictionary (lines 41-61).
download_dictionary_no_fallback(cache, download, write) ==
    IF ~download.ok
    THEN [dictionary |-> <<>>, cache_file |-> cache, raised |-> FALSE]
    ELSE [dictionary |-> download.data,
          cache_file |-> IF write = "written"
                         THEN CacheFile(TRUE, TRUE, download.data)
                         ELSE IF write = "dump raises"
                         THEN CacheFile(TRUE, FALSE, <<>>)
                         ELSE cache,
          raised |-> FALSE]
download_dictionary(cache, download, write) ==
    IF ~download.ok
    THEN [dictionary |-> _get_fallback_dictionary, cache_file |-> cache,
          raised |-> FALSE]
    ELSE [dictionary |-> download.data,
          cache_file |-> IF write = "written"
                         THEN CacheFile(TRUE, TRUE, download.data)
                         ELSE IF write = "dump raises"
                         THEN CacheFile(TRUE, FALSE, <<>>)
                         ELSE cache,
          raised |-> FALSE]

\* DictionaryManager(use_downloaded): __init__ (lines 18-21) and
\* load_dictionary (lines 23-39).
load_dictionary(use_downloaded, cache, download, write) ==
    IF ~use_downloaded
    THEN [dictionary |-> _get_fallback_dictionary, cache_file |-> cache,
          raised |-> FALSE]
    ELSE IF cache.exists /\ cache.parses
    THEN [dictionary |-> cache.data, cache_file |-> cache, raised |-> FALSE]
    ELSE download_dictionary(cache, download, write)
(* ------------------------------ show_settings -------------------------- *)

\* The round's state and the widgets: playVars without settings.
roundVars == <<current_word, current_definition, question_number, score,
               results, word_list, frame, entry_state, entry_text,
               submit_state, submit_packed, action_packed, return_bound,
               feedback, timers, game_log>>

\* dict.get(key, default).
dict_get(d, key, default) == IF key \in DOMAIN d THEN d[key] ELSE default

\* Game > Settings: show_settings up to wait_window (lines 344-346).  The
\* dialog starts with result None (line 14), grabs the input (line 20) and
\* fills its fields from the settings (lines 33, 43, 53, 60-62).
OpenSettings ==
    /\ ~dialog.open
    /\ dialog' = [open |-> TRUE, result |-> NoResult,
                  questions_var |-> str(settings.num_questions),
                  min_len_var |-> str(settings.min_length),
                  max_len_var |-> str(settings.max_length),
                  use_downloaded_var |->
                      dict_get(settings, "use_downloaded_dict", FALSE)]
    /\ UNCHANGED <<callback_error, tts_workers, ttsVars, dictVars, gameVars,
                   other>>

\* The player types into a spinbox of the dialog or clicks its checkbox.
EditDialog(field, value) ==
    /\ dialog.open
    /\ dialog[field] # value
    /\ dialog' = [dialog EXCEPT ![field] = value]
    /\ UNCHANGED <<callback_error, tts_workers, ttsVars, dictVars, gameVars,
                   other>>

\* "Save" in the dialog: save (lines 76-97) and, when it destroys the
\* dialog, the rest of show_settings (lines 348-358).  A DictionaryManager
\* built at line 354 finds the cache file as it is, the download ending as
\* download says and the cache write as write says.
SaveDialog(download, write) ==
    /\ dialog.open
    /\ LET r == save(dialog.questions_var, dialog.min_len_var,
                     dialog.max_len_var, dialog.use_downloaded_var) IN
       IF ~r.destroyed
       THEN /\ msgbox' = r.error
            /\ UNCHANGED <<dialog, settings, dictVars, callback_error,
                           tts_workers>>
       ELSE LET old_use_downloaded ==
                    dict_get(settings, "use_downloaded_dict", FALSE)
                old_voice == dict_get(settings, "voice", "en-GB-SoniaNeural")
                manager == load_dictionary(r.result.use_downloaded_dict,
                                           cache_file, download, write)
                rebuilt == r.result.use_downloaded_dict # old_use_downloaded
            IN
            /\ dialog' = ClosedDialog(r.result)
            /\ settings' = r.result
            /\ IF rebuilt
               THEN /\ dictionary' = manager.dictionary
                    /\ cache_file' = manager.cache_file
               ELSE UNCHANGED <<dictionary, cache_file>>
            /\ IF rebuilt /\ manager.raised
               THEN /\ callback_error' = "load_dictionary raised"
                    /\ UNCHANGED tts_workers
               ELSE IF "voice" \notin DOMAIN r.result
               THEN /\ callback_error' = "KeyError: 'voice'"
                    /\ UNCHANGED tts_workers
               ELSE IF r.result.voice # old_voice
               THEN /\ tts_workers' = tts_workers + 1
                    /\ UNCHANGED callback_error
               ELSE UNCHANGED <<callback_error, tts_workers>>
            /\ UNCHANGED <<msgbox, returned>>
    /\ UNCHANGED <<roundVars, ttsVars, other>>

\* "Cancel" in the dialog: cancel (lines 99-101); show_settings finds
\* result None (line 348).
CancelDialog ==
    /\ dialog.open
    /\ dialog' = ClosedDialog(NoResult)
    /\ UNCHANGED <<callback_error, tts_workers, ttsVars, dictVars, gameVars,
                   other>>

\* The buttons of the main window answer only while the dialog, which
\* holds the grab, is closed.
StartButton == ~dialog.open /\ StartNewGame

\* The game as the settings dialog finds it: built as in __init__, with
\* edge_tts and pygame importable and the cache file in any of its states.
SettingsInit ==
    /\ Init
    /\ TTS_AVAILABLE /\ PLAYBACK_AVAILABLE
    /\ WindowInit
    /\ dictionary = _get_fallback_dictionary
    /\ returned = NotCalled
    /\ cache_file \in CacheFiles
    /\ other = NoInstance

\* The player's steps in the open dialog.
Edit ==
    \/ \E value \in QuestionTexts : EditDialog("questions_var", value)
    \/ \E value \in LengthTexts : EditDialog("min_len_var", value)
    \/ \E value \in LengthTexts : EditDialog("max_len_var", value)
    \/ \E value \in BOOLEAN : EditDialog("use_downloaded_var", value)

SaveButton == \E download \in Downloads, write \in Writes :
                 SaveDialog(download, write)

SettingsNext ==
    \/ OpenSettings
    \/ Edit
    \/ SaveButton
    \/ CancelDialog
    \/ StartButton

SettingsSpec == SettingsInit /\ [][SettingsNext]_vars
(* --------------------- two TextToSpeech instances ---------------------- *)

\* Number of speak() calls made on each of the two instances.
MaxTwoSpeaks == 2

\* Texts handed to the second instance's speak().
OtherTexts == {<<"p", "e", "a", "r">>}

\* TextToSpeech.__init__ (lines 35-40) of the second instance: its own
\* engine_ready, its own Queue, its own worker thread.
NewInstance ==
    [queue |-> <<>>, unfinished |-> 0, engine_ready |-> FALSE, pc |-> "get",
     text |-> NoText, enqueued |-> <<>>, dequeued |-> <<>>, log |-> <<>>,
     speak_calls |-> 0, terminations |-> 0]

\* The first instance's own fields and worker are untouched by a step of
\* the second.
UnchangedFirst ==
    UNCHANGED <<queue, unfinished, engine_ready, pc, text, enqueued, dequeued,
                calls, log, speak_calls, raised, terminations,
                TTS_AVAILABLE, PLAYBACK_AVAILABLE, dictVars, gameVars,
                settingsVars>>

\* speak (lines 42-47) on the second instance.
OtherSpeak(item, put_ok) ==
    /\ other.speak_calls < MaxTwoSpeaks
    /\ put_can_proceed(other.queue)
    /\ LET r == speak(other.queue, other.unfinished, other.log, item,
                      put_ok) IN
       other' = [other EXCEPT
                    !.queue = r.queue,
                    !.unfinished = r.unfinished,
                    !.log = r.log,
                    !.enqueued = IF r.put_done THEN Append(@, item) ELSE @,
                    !.speak_calls = @ + 1]
    /\ UnchangedFirst
    /\ UNCHANGED <<playing, tmp_files>>

OtherGetFromShared ==
    /\ other.pc = "get"
    /\ queue # <<>>
    /\ other' = [other EXCEPT
                    !.text = get_item(queue),
                    !.dequeued = Append(@, get_item(queue)),
                    !.pc = IF is_sentinel(get_item(queue))
                           THEN "stopped" ELSE "l79",
                    !.terminations = IF is_sentinel(get_item(queue))
                                     THEN @ + 1 ELSE @]
    /\ queue' = get_rest(queue)
    /\ dequeued' = Append(dequeued, get_item(queue))
    /\ UNCHANGED <<unfinished, engine_ready, pc, text, enqueued,
                   calls, log, speak_calls, raised, terminations,
                   TTS_AVAILABLE, PLAYBACK_AVAILABLE, dictVars, gameVars,
                   settingsVars>>
    /\ UNCHANGED <<playing, tmp_files>>

\* Lines 75-77 in the second instance's worker thread.
OtherGet ==
    /\ other.pc = "get"
    /\ other.queue # <<>>
    /\ other' = [other EXCEPT
                    !.text = get_item(other.queue),
                    !.queue = get_rest(other.queue),
                    !.dequeued = Append(@, get_item(other.queue)),
                    !.pc = IF is_sentinel(get_item(other.queue))
                           THEN "stopped" ELSE "l79",
                    !.terminations = IF is_sentinel(get_item(other.queue))
                                     THEN @ + 1 ELSE @]
    /\ UnchangedFirst
    /\ UNCHANGED <<playing, tmp_files>>

\* Lines 79-80 in the second instance's worker thread.
OtherEnsureEngine(mixer_ok) ==
    /\ other.pc = "l79"
    /\ IF needs_init(other.engine_ready)
       THEN LET r == _init_engine(other.engine_ready, TTS_AVAILABLE,
                                  PLAYBACK_AVAILABLE, mixer_ok) IN
            other' = [other EXCEPT
                         !.engine_ready = r.ready,
                         !.log = Append(@, LogEntry(r.msg,
                                                    Len(other.dequeued))),
                         !.pc = "l82"]
       ELSE other' = [other EXCEPT !.pc = "l82"]
    /\ UnchangedFirst
    /\ UNCHANGED <<playing, tmp_files>>

\* Lines 82-85 in the second instance's worker thread.
OtherNoEngine ==
    /\ other.pc = "l82"
    /\ ~other.engine_ready
    /\ other' = [other EXCEPT
                    !.log = Append(@, LogEntry("(no engine) would speak",
                                               Len(other.dequeued))),
                    !.unfinished = task_done(@),
                    !.pc = "get"]
    /\ UnchangedFirst
    /\ UNCHANGED <<playing, tmp_files>>

\* Lines 87-99 in the second instance's worker thread: temporary file,
\* synthesis, load and play on the mixer both instances share; ok = FALSE
\* is one of them raising (lines 109-112).
OtherPlay(ok) ==
    /\ other.pc = "l82"
    /\ other.engine_ready
    /\ IF ok
       THEN /\ other' = [other EXCEPT !.pc = "busy"]
            /\ playing' = TRUE
       ELSE /\ other' = [other EXCEPT
                            !.log = Append(@, LogEntry("TTS speak error",
                                                       Len(other.dequeued))),
                            !.unfinished = task_done(@),
                            !.pc = "get"]
            /\ UNCHANGED playing
    /\ UnchangedFirst
    /\ UNCHANGED tmp_files

\* Lines 100-112 in the second instance's worker thread: leave the polling
\* loop, unlink, task_done().
OtherWaitBusy ==
    /\ other.pc = "busy"
    /\ busy_loop_exits(playing)
    /\ other' = [other EXCEPT !.unfinished = task_done(@), !.pc = "get"]
    /\ UnchangedFirst
    /\ UNCHANGED <<playing, tmp_files>>

OtherWorker ==
    \/ OtherGet
    \/ \E mixer_ok \in BOOLEAN : OtherEnsureEngine(mixer_ok)
    \/ OtherNoEngine
    \/ \E ok \in BOOLEAN : OtherPlay(ok)
    \/ OtherWaitBusy

\* speak on the first instance, within the bound of this specification.
FirstSpeak(item, put_ok) ==
    /\ speak_calls < MaxTwoSpeaks
    /\ Speak(item, put_ok)

\* A client that has built two instances.
TwoInit ==
    /\ Init
    /\ WindowInit
    /\ dictionary = _get_fallback_dictionary
    /\ returned = NotCalled
    /\ cache_file = NoCacheFile
    /\ other = NewInstance

TwoNext ==
    \/ \E item \in Items, put_ok \in BOOLEAN : FirstSpeak(item, put_ok)
    \/ \E item \in OtherTexts \cup {None}, put_ok \in BOOLEAN :
          OtherSpeak(item, put_ok)
    \/ Worker
    \/ OtherWorker
    \/ MusicFinish

TwoSpec == TwoInit /\ [][TwoNext]_vars
\* Texts the game hands to speak().
GameTexts ==
    {spell_text(w) : w \in DictWords \cup {<<>>}}
        \cup {def_oven, def_stand, def_ship, def_disc}

TypeOK ==
    /\ queue \in Seq(Items \cup GameTexts)
    /\ unfinished \in Nat
    /\ engine_ready \in BOOLEAN
    /\ pc \in WorkerPcs
    /\ text \in Items \cup GameTexts \cup {NoText}
    /\ playing \in BOOLEAN
    /\ tmp_files \subseteq 1..MaxSpeaks
    /\ speak_calls \in 0..MaxSpeaks
    /\ terminations \in Nat

(* ------------------------- derived observations ------------------------ *)

IsPrefix(s, t) == Len(s) <= Len(t) /\ s = SubSeq(t, 1, Len(s))

\* Diagnostics of an _init_engine call that left the engine not ready.
InitFailureMsgs == {"Edge TTS not available",
                    "pygame not available for audio playback",
                    "TTS initialization error (worker)"}

\* Diagnostics of an _init_engine call that reached pygame.mixer.init().
MixerInitMsgs == {"Edge TTS engine initialized in worker thread",
                  "TTS initialization error (worker)"}

\* Number of pygame.mixer.init() calls made so far.
MixerInitCalls == Cardinality({i \in DOMAIN log : log[i].msg \in MixerInitMsgs})

\* Requests during which an initialization attempt failed.
InitFailedAt == {log[i].req : i \in {j \in DOMAIN log :
                                         log[j].msg \in InitFailureMsgs}}

\* Request r (an ordinary text) has been handled to its end.
Finished(r) ==
    /\ r \in 1..req
    /\ dequeued[r] # None
    /\ r < req \/ pc = "get"

Logged(msg, r) == \E i \in DOMAIN log : log[i] = LogEntry(msg, r)
Called(kind, r) ==
    \E i \in DOMAIN calls : calls[i] = Call(kind, r, dequeued[r])

\* Number of synthesis / playback activities in progress.
ActiveCount == (IF pc = "synth" THEN 1 ELSE 0) + (IF playing THEN 1 ELSE 0)

\* Position of the first stop sentinel put on the queue (0: none).
FirstNone(s) ==
    IF \E i \in DOMAIN s : s[i] = None
    THEN CHOOSE i \in DOMAIN s : s[i] = None /\ \A j \in 1..(i-1) : s[j] # None
    ELSE 0

\* A step that is a call of speak().
SpeakStep == speak_calls' = speak_calls + 1

(* -------------------------------- claims ------------------------------- *)

\* C1: the texts the worker has dequeued are at every moment a prefix of
\* the texts in put order, and what was put is exactly what was dequeued
\* followed by what is still queued: nothing is reordered, duplicated,
\* dropped or coalesced.
C1_FifoPrefix ==
    /\ IsPrefix(dequeued, enqueued)
    /\ enqueued = dequeued \o queue

C1_Witness ==
    /\ Len(dequeued) >= 2
    /\ dequeued[1] # dequeued[2]
    /\ Len(queue) >= 1

\* C2: at most one request of the instance is being synthesized or played
\* at any time, whatever the producers put on the queue meanwhile.
C2_AtMostOneActive == ActiveCount <= 1

C2_Witness ==
    /\ playing
    /\ pc = "busy"
    /\ Len(queue) >= 2
    /\ req >= 2

\* C3: speak never waits: the put can proceed in every reachable state, a
\* speak call is possible in every worker position, and a speak step is not
\* a worker step (the worker's position and the engine are as before).
C3_SpeakNeverBlocks ==
    /\ [](put_can_proceed(queue))
    /\ [](speak_calls < MaxSpeaks =>
            \A item \in Items : ENABLED Speak(item, TRUE))
    /\ [][SpeakStep =>
            /\ pc' = pc
            /\ playing' = playing
            /\ engine_ready' = engine_ready]_vars

C3_Witness ==
    /\ pc = "synth"
    /\ Len(queue) = MaxSpeaks - 1
    /\ speak_calls = MaxSpeaks

\* C4: speak never raises to its caller; a failing put is logged, the
\* request is dropped and the queue is as it was.
C4_SpeakNeverRaises ==
    /\ [](~raised)
    /\ [][(SpeakStep /\ enqueued' = enqueued) =>
            /\ queue' = queue
            /\ unfinished' = unfinished
            /\ log' = Append(log, LogEntry("TTS enqueue error", 0))
            /\ pc' = pc]_vars

C4_Witness ==
    /\ Logged("TTS enqueue error", 0)
    /\ enqueued # <<>>
    /\ Len(enqueued) < speak_calls
    /\ ~raised

\* C5 (as claimed): initialization is attempted at most once per instance:
\* pygame.mixer.init() is called at most once.
C5_InitAttemptedAtMostOnce == MixerInitCalls <= 1

\* C6 (as claimed): once an initialization attempt has failed, no synthesis
\* or playback call is made for that request or any later one.
C6_NoSpeechAfterInitFailure ==
    \A i \in DOMAIN calls : \A r \in InitFailedAt : calls[i].req < r

\* C7 (as claimed): after an initialization failure the worker is not ended
\* by it, and the triggering request and every later request the worker
\* finishes is handled as a logged no-op.
C7_NoOpAfterInitFailure ==
    /\ pc = "stopped" => dequeued[req] = None
    /\ \A f \in InitFailedAt : \A r \in f..req :
          Finished(r) => Logged("(no engine) would speak", r)

\* C8: with a ready engine a synthesis or playback failure is logged and
\* ends only its own request: the worker goes back to the queue with the
\* engine still ready and the queue untouched, and every finished request
\* that had no failure of its own was synthesized and then played, the calls
\* being made in dequeue order.
C8_FailureIsolated ==
    /\ [][(Len(log') = Len(log) + 1 /\ log'[Len(log')].msg = "TTS speak error")
            => /\ pc' = "get"
               /\ engine_ready /\ engine_ready'
               /\ queue' = queue
               /\ terminations' = terminations]_vars
    /\ [](\A r \in 1..req :
            (Finished(r) /\ ~Logged("TTS speak error", r)
                         /\ ~Logged("(no engine) would speak", r))
            => /\ Called("synthesize", r)
               /\ Called("play", r))
    /\ [](\A i, j \in DOMAIN calls :
            i < j => \/ calls[i].req < calls[j].req
                     \/ /\ calls[i].req = calls[j].req
                        /\ calls[i].kind = "synthesize"
                        /\ calls[j].kind = "play")

C8_Witness ==
    /\ pc = "get"
    /\ req = 3
    /\ Called("play", 1) /\ ~Logged("TTS speak error", 1)
    /\ Logged("TTS speak error", 2)
    /\ Called("play", 3) /\ ~Logged("TTS speak error", 3)

\* C9: the worker has stopped only when it has got exactly the items put up
\* to the first stop sentinel, each request before the sentinel handled to
\* its end; putting the sentinel does not touch the request in flight.
C9_StopAfterEarlierRequests ==
    /\ [](pc = "stopped" =>
            /\ FirstNone(enqueued) > 0
            /\ dequeued = SubSeq(enqueued, 1, FirstNone(enqueued))
            /\ unfinished = Len(queue) + 1
            /\ ~playing
            /\ \A r \in 1..(req - 1) :
                  \/ Logged("(no engine) would speak", r)
                  \/ Logged("TTS speak error", r)
                  \/ Called("play", r))
    /\ [][(SpeakStep /\ Len(enqueued') > Len(enqueued)
                     /\ enqueued'[Len(enqueued')] = None)
            => /\ pc' = pc
               /\ text' = text
               /\ playing' = playing
               /\ tmp_files' = tmp_files
               /\ calls' = calls]_vars

C9_Witness ==
    /\ pc = "stopped"
    /\ req = 3
    /\ Called("play", 1)
    /\ Called("play", 2)

\* C10: putting the stop sentinel more than once is harmless: no speak call
\* raises, the worker ends at most once, and once stopped it stays stopped
\* with later sentinels left on the queue.
C10_ShutdownIdempotent ==
    /\ [](~raised /\ terminations <= 1)
    /\ [](pc = "stopped" <=> terminations = 1)
    /\ [][pc = "stopped" =>
            /\ pc' = "stopped"
            /\ terminations' = terminations
            /\ dequeued' = dequeued
            /\ engine_ready' = engine_ready]_vars

C10_Witness ==
    /\ pc = "stopped"
    /\ terminations = 1
    /\ Cardinality({i \in DOMAIN enqueued : enqueued[i] = None}) >= 2

\* Diagnostics printed by _init_engine.
InitMsgs == InitFailureMsgs \cup MixerInitMsgs

\* The worker has got the stop sentinel.
SentinelDequeued == \E i \in DOMAIN dequeued : dequeued[i] = None

\* C11: once the worker has got the stop sentinel it is stopped for good:
\* it gets nothing more, initializes nothing, makes no synthesis or playback
\* call and creates no file, while speak still returns without raising and
\* what it puts stays on the queue.
C11_StoppedIsTerminal ==
    /\ [](SentinelDequeued => pc = "stopped" /\ ~playing)
    /\ [](~raised)
    /\ [][SentinelDequeued =>
            /\ pc' = "stopped"
            /\ dequeued' = dequeued
            /\ calls' = calls
            /\ engine_ready' = engine_ready
            /\ playing' = playing
            /\ tmp_files' = tmp_files
            /\ IsPrefix(queue, queue')
            /\ \A i \in DOMAIN log' :
                  i > Len(log) => log'[i].msg = "TTS enqueue error"]_vars

C11_Witness ==
    /\ pc = "stopped"
    /\ Len(queue) >= 1
    /\ queue[1] \in Texts
    /\ engine_ready

\* C12 (as claimed): no temporary file outlives its request: whenever the
\* worker is between requests (or stopped) no temporary file exists.
C12_TempFilesReleased == pc \in {"get", "stopped"} => tmp_files = {}

\* C13: the empty string is an ordinary request: it is put on the queue and
\* got in its FIFO position, it goes through the same handling as any other
\* text, and only the sentinel stops the worker.
C13_EmptyStringIsOrdinary ==
    /\ [](pc = "stopped" => dequeued[req] = None)
    /\ [](\A i \in DOMAIN dequeued : dequeued[i] = enqueued[i])
    /\ [][(pc = "get" /\ req' = req + 1 /\ dequeued'[req'] = <<>>)
            => pc' = "l79" /\ text' = <<>>]_vars
    /\ [](\A r \in 1..req :
            (Finished(r) /\ dequeued[r] = <<>>)
            => \/ Logged("(no engine) would speak", r)
               \/ Logged("TTS speak error", r)
               \/ /\ Called("synthesize", r)
                  /\ Called("play", r))

C13_Witness ==
    /\ req = 2
    /\ dequeued[1] = <<>>
    /\ calls = <<Call("synthesize", 1, <<>>), Call("play", 1, <<>>),
                 Call("synthesize", 2, dequeued[2]),
                 Call("play", 2, dequeued[2])>>
    /\ dequeued[2] # <<>>
    /\ pc = "get"

\* C14: a speak call changes the work queue (and the diagnostics) and nothing
\* else; engine_ready changes, and synthesis and playback calls are made,
\* only in steps of the worker.
C14_SpeakTouchesOnlyQueue ==
    /\ [][SpeakStep =>
            UNCHANGED <<engine_ready, TTS_AVAILABLE, PLAYBACK_AVAILABLE, pc,
                        text, playing, tmp_files, dequeued, calls,
                        terminations>>]_vars
    /\ [][engine_ready' # engine_ready =>
            /\ pc = "l79" /\ pc' = "l82"
            /\ speak_calls' = speak_calls]_vars
    /\ [][calls' # calls =>
            /\ pc \in {"l82", "l98"}
            /\ pc' # pc
            /\ speak_calls' = speak_calls]_vars

C14_Witness ==
    /\ engine_ready
    /\ pc = "l98"
    /\ Len(queue) >= 1
    /\ speak_calls >= 2

\* C15: under a fair worker every request put ahead of any stop sentinel is
\* eventually handled to its end, and in the end the worker either sits idle
\* on an empty queue (no sentinel was put) or has stopped (one was).
C15_EveryRequestFinishes ==
    /\ \A k \in 1..MaxFairSpeaks :
          [](( /\ Len(enqueued) >= k
               /\ \A i \in 1..k : enqueued[i] # None ) => <>Finished(k))
    /\ <>[](IF FirstNone(enqueued) = 0
            THEN pc = "get" /\ queue = <<>> /\ ~playing /\ unfinished = 0
            ELSE pc = "stopped")

C15_Witness ==
    /\ pc = "get"
    /\ queue = <<>>
    /\ req = 3
    /\ Logged("(no engine) would speak", 1)
    /\ Called("play", 3)

\* C16: initialization is lazy: a fresh instance has its engine not ready
\* and its worker idle, and as long as the worker has got no ordinary text
\* (nothing, or the sentinel first) no initialization has been attempted.
C16_LazyInit ==
    /\ (speak_calls = 0 => pc = "get" /\ ~engine_ready /\ log = <<>>)
    /\ (dequeued = <<>> \/ dequeued[1] = None) =>
          /\ ~engine_ready
          /\ \A i \in DOMAIN log : log[i].msg \notin InitMsgs
    /\ \A i \in DOMAIN log : log[i].msg \in InitMsgs =>
          /\ log[i].req \in 1..req
          /\ dequeued[log[i].req] \in Texts

C16_Witness ==
    /\ dequeued = <<None>>
    /\ pc = "stopped"
    /\ ~engine_ready
    /\ Len(queue) >= 1

\* C19: the engine calls are strictly sequenced: a playback call directly
\* follows the synthesis call of the same request, a request whose synthesis
\* fails gets no playback call, and a synthesis call is made only while
\* nothing is being synthesized or played.
C19_CallsSequenced ==
    /\ [](\A i \in DOMAIN calls :
            calls[i].kind = "play" =>
               /\ i > 1
               /\ calls[i-1] = Call("synthesize", calls[i].req, calls[i].text))
    /\ [](\A i \in DOMAIN calls :
            /\ calls[i].req \in 1..req
            /\ calls[i].text = dequeued[calls[i].req])
    /\ [][calls' # calls =>
            /\ calls' = Append(calls, calls'[Len(calls')])
            /\ calls'[Len(calls')].req = req
            /\ ActiveCount = 0
            /\ calls'[Len(calls')].kind = "synthesize" => engine_ready]_vars
    /\ [][(pc = "synth" /\ Len(log') > Len(log)
                        /\ log'[Len(log')].msg = "TTS speak error")
            => /\ pc' = "get"
               /\ calls' = calls
               /\ ~playing']_vars
    /\ [](pc \in {"get", "l79", "l82", "synth"} => ~playing)

C19_Witness ==
    /\ Len(calls) = 4
    /\ calls[1].kind = "synthesize" /\ calls[1].req = 1
    /\ calls[2].kind = "play" /\ calls[2].req = 1
    /\ calls[3].kind = "synthesize" /\ calls[3].req = 2
    /\ calls[4].kind = "play" /\ calls[4].req = 2
    /\ calls[1].text # calls[3].text

\* C17: get_words_by_length(min_length, max_length) returns exactly the
\* words of the dictionary whose length is in the range and whose characters
\* are all letters, each with the definition text of its first meaning (the
\* empty text when that meaning has none), and leaves the dictionary as it
\* was.
C17_WordsByLength ==
    /\ [](returned.called =>
            /\ \A w \in DOMAIN dictionary :
                  w \in DOMAIN returned.result <=>
                     /\ returned.min_length <= Len(w)
                     /\ Len(w) <= returned.max_length
                     /\ \A i \in 1..Len(w) : w[i] \in Letters
            /\ DOMAIN returned.result \subseteq DOMAIN dictionary
            /\ \A w \in DOMAIN returned.result :
                  LET first == dictionary[w].meanings[1] IN
                  returned.result[w] =
                      IF "def" \in DOMAIN first THEN first.def ELSE <<>>)
    /\ [][dictionary' = dictionary]_vars

C17_Witness ==
    /\ returned.called
    /\ DOMAIN dictionary = DictWords
    /\ returned.min_length = 5
    /\ returned.max_length = 6
    /\ DOMAIN returned.result = {easel, vessel}
    /\ returned.result[easel] = <<>>
    /\ returned.result[vessel] = def_ship

\* C18 (as claimed): after Try Again the player can submit an answer for the
\* same word again: the Submit button is visible and enabled, or <Return> is
\* bound to submit_answer.
C18_CanSubmitAfterTryAgain == [][TryAgain => CanSubmit']_vars

\* C20: the game never puts the stop sentinel on its speech queue: every
\* item it has put is a "Spell the word: ..." text or a definition, so its
\* speech worker is never stopped.
C20_GameNeverStopsWorker ==
    /\ \A i \in DOMAIN enqueued :
          /\ enqueued[i] # None
          /\ enqueued[i] \in GameTexts
    /\ \A i \in DOMAIN queue : queue[i] # None
    /\ pc # "stopped"
    /\ terminations = 0

C20_Witness ==
    /\ frame = "results"
    /\ Len(enqueued) >= 1
    /\ enqueued[1] \in {spell_text(easel), spell_text(vessel)}
    /\ dequeued = enqueued
    /\ pc = "get"

\* C28: ready is stable: once engine_ready is true it stays true, and no
\* later step of the worker runs _init_engine again (no initialization
\* diagnostic is printed), whatever requests and failures follow.
C28_ReadyIsStable ==
    [][engine_ready =>
          /\ engine_ready'
          /\ \A i \in DOMAIN log' :
                i > Len(log) => log'[i].msg \notin InitMsgs]_vars

C28_Witness ==
    /\ engine_ready
    /\ \E i \in DOMAIN log : log[i].msg = "TTS speak error"
    /\ req >= 2
    /\ pc = "l82"

\* The last entry of a sequence that has just grown by one.
Appended(before, after) ==
    /\ Len(after) = Len(before) + 1
    /\ SubSeq(after, 1, Len(before)) = before

\* C22: submit_answer judges a non-empty answer correct exactly when the
\* trimmed, lower-cased input equals the lower-cased current word; a correct
\* answer adds 1 to score, appends one result marked correct and advances
\* question_number by 1; an incorrect answer leaves all three unchanged.
C22_SubmitJudges ==
    [][(SubmitAnswer /\ str_lower(str_strip(entry_text)) # <<>>) =>
          IF str_lower(str_strip(entry_text)) = str_lower(current_word)
          THEN /\ score' = score + 1
               /\ Appended(results, results')
               /\ results'[Len(results')][1] = current_word
               /\ results'[Len(results')][3] = TRUE
               /\ question_number' = question_number + 1
          ELSE UNCHANGED <<score, results, question_number>>]_vars

C22_Witness ==
    /\ entry_text = <<" ", "V", "e", "s", "s", "e", "l", " ">>
    /\ current_word = vessel
    /\ results = << <<vessel, vessel, TRUE>> >>
    /\ score = 1
    /\ question_number = 1

\* An empty or whitespace-only text.
IsBlank(s) == \A i \in DOMAIN s : s[i] \in Whitespace

\* C23: submitting an empty or whitespace-only answer changes no game
\* state: score, results, question_number, the current word and the states
\* of the entry and of the submit button stay as they are, and nothing is
\* put on the speech queue.
C23_EmptySubmitChangesNothing ==
    [][(SubmitAnswer /\ IsBlank(entry_text)) =>
          UNCHANGED <<score, results, question_number, current_word,
                      entry_state, submit_state, queue, enqueued,
                      speak_calls>>]_vars

C23_Witness ==
    /\ msgbox = "Please enter a word."
    /\ entry_text = <<" ">>
    /\ frame = "game"
    /\ entry_state = "normal"
    /\ submit_state = "normal"
    /\ results = <<>>
    /\ question_number = 0

\* C24: Next after an incorrect answer records the current word once, as
\* incorrect, leaves score unchanged and advances question_number by 1, to
\* the next word of the list or, after the last word, to the results frame.
C24_NextRecordsOnce ==
    [][NextQuestion =>
          /\ Appended(results, results')
          /\ results'[Len(results')][1] = current_word
          /\ results'[Len(results')][3] = FALSE
          /\ score' = score
          /\ question_number' = question_number + 1
          /\ IF question_number + 1 < Len(word_list)
             THEN /\ frame' = "game"
                  /\ current_word' = word_list[question_number + 2][1]
                  /\ current_definition' = word_list[question_number + 2][2]
             ELSE frame' = "results"]_vars

C24_Witness ==
    /\ Len(results) = 1
    /\ results[1][3] = FALSE
    /\ results[1][1] = word_list[1][1]
    /\ score = 0
    /\ question_number = 1
    /\ frame = "game"
    /\ current_word = word_list[2][1]

\* C21: two TextToSpeech instances do not interfere through their own
\* state: each worker gets only what was put on its own queue, in put order;
\* a worker is stopped only by a sentinel put on its own queue, and its
\* stopping leaves the other instance as it is; a step that changes one
\* instance's engine_ready or prints one instance's diagnostics (an
\* initialization failure among them) leaves the other instance's state
\* unchanged.
C21_InstancesIndependent ==
    /\ [](/\ IsPrefix(dequeued, enqueued)
          /\ IsPrefix(other.dequeued, other.enqueued)
          /\ \A i \in DOMAIN dequeued : dequeued[i] \in Items
          /\ \A i \in DOMAIN other.dequeued :
                other.dequeued[i] \in OtherTexts \cup {None}
          /\ pc = "stopped" => \E i \in DOMAIN enqueued : enqueued[i] = None
          /\ other.pc = "stopped" =>
                \E i \in DOMAIN other.enqueued : other.enqueued[i] = None)
    /\ [][/\ (pc' # pc \/ engine_ready' # engine_ready \/ log' # log)
                => other' = other
          /\ (other.pc' # other.pc
                \/ other.engine_ready' # other.engine_ready
                \/ other.log' # other.log)
                => UNCHANGED <<queue, unfinished, engine_ready, pc, text,
                               enqueued, dequeued, log, terminations>>]_vars

C21_Witness ==
    /\ pc = "stopped"
    /\ ~engine_ready
    /\ \E i \in DOMAIN log : log[i].msg = "TTS initialization error (worker)"
    /\ other.engine_ready
    /\ other.pc = "busy"
    /\ other.dequeued = << <<"p", "e", "a", "r">> >>

\* The smaller of two integers.
Min(a, b) == IF a < b THEN a ELSE b

\* C25 (as claimed): start_new_game resets question_number and score to 0
\* and results to empty, and sets word_list to min(num_questions, number of
\* available words) pairwise distinct words, each a word of
\* get_words_by_length(min_length, max_length) paired with its definition.
C25_StartNewGameDraws ==
    [][StartNewGame =>
          LET available_words ==
                  get_words_by_length(dictionary, settings.min_length,
                                      settings.max_length) IN
          /\ question_number' = 0
          /\ score' = 0
          /\ results' = <<>>
          /\ Len(word_list') = Min(settings.num_questions,
                                   Cardinality(DOMAIN available_words))
          /\ \A i, j \in DOMAIN word_list' :
                word_list'[i][1] = word_list'[j][1] => i = j
          /\ \A i \in DOMAIN word_list' :
                /\ word_list'[i][1] \in DOMAIN available_words
                /\ word_list'[i][2] = available_words[word_list'[i][1]]]_vars

\* C26: the settings dialog changes the game's settings only on a valid
\* Save: a Save with a field that is no integer or with minimum length
\* above maximum length stores no result, and a step of the open dialog that
\* leaves its result None (Cancel, a refused Save) leaves the settings, the
\* dictionary manager and the speech worker as they are.
C26_OnlyValidSaveChanges ==
    /\ [][(SaveButton
             /\ \/ ~int(dialog.questions_var).ok
                \/ ~int(dialog.min_len_var).ok
                \/ ~int(dialog.max_len_var).ok
                \/ int(dialog.min_len_var).value
                      > int(dialog.max_len_var).value) =>
             dialog'.result = NoResult]_vars
    /\ [][CancelDialog => dialog'.result = NoResult]_vars
    /\ [][(dialog.open /\ dialog'.result = NoResult) =>
             UNCHANGED <<settings, dictionary, cache_file, tts_workers,
                         callback_error, ttsVars>>]_vars

C26_Witness ==
    /\ dialog.open
    /\ dialog.result = NoResult
    /\ msgbox = "Minimum length cannot be greater than maximum length."
    /\ "voice" \in DOMAIN settings
    /\ settings.num_questions = 10

\* C27: constructing a DictionaryManager never raises and ends with the
\* dictionary the fallback chain names: the built-in one when use_downloaded
\* is false; else the cache file's contents when the file exists and
\* parses; else the downloaded data; else, the download failing, the
\* built-in one.
C27_FallbackChain ==
    [][\A download \in Downloads, write \in Writes :
          (SaveDialog(download, write)
             /\ settings'.use_downloaded_dict
                   # dict_get(settings, "use_downloaded_dict", FALSE)) =>
             /\ callback_error' # "load_dictionary raised"
             /\ dictionary' =
                   IF ~settings'.use_downloaded_dict
                   THEN _get_fallback_dictionary
                   ELSE IF cache_file.exists /\ cache_file.parses
                   THEN cache_file.data
                   ELSE IF download.ok THEN download.data
                   ELSE _get_fallback_dictionary]_vars

C27_Witness ==
    /\ settings.use_downloaded_dict
    /\ dictionary = DownloadedDict
    /\ cache_file = CacheFile(TRUE, TRUE, DownloadedDict)

\* C29 (as claimed): after a Save of valid values show_settings has ended
\* without an error and the settings hold every key the game reads:
\* num_questions, min_length, max_length, use_downloaded_dict and voice.
C29_SaveKeepsEverySetting ==
    /\ callback_error = ""
    /\ {"num_questions", "min_length", "max_length", "use_downloaded_dict",
        "voice"} \subseteq DOMAIN settings

\* C30: after any sequence of games and settings saves the game has at most
\* one TextToSpeech worker.
C30_OneWorker == tts_workers <= 1

C30_Witness ==
    /\ ~dialog.open
    /\ dialog.result # NoResult
    /\ settings.use_downloaded_dict
    /\ tts_workers = 1
    /\ frame = "game"

\* The worker holds an item it has got and not yet marked done.
InFlight == IF pc \in {"get", "stopped"} THEN 0 ELSE 1

\* C31 (as claimed): the worker marks every item it gets as done exactly
\* once: the queue's count of unfinished tasks equals the number of items
\* still queued plus the item in flight, so it is zero once the worker has
\* consumed everything, a stop sentinel included.
C31_UnfinishedMatchesQueue == unfinished = Len(queue) + InFlight

\* C32: in every reachable game state the number of recorded results equals
\* question_number: each question left behind has exactly one result entry,
\* for its own word, and the current question has none.
C32_OneResultPerQuestion ==
    /\ Len(results) = question_number
    /\ question_number <= Len(word_list)
    /\ \A i \in DOMAIN results : results[i][1] = word_list[i][1]

C32_Witness ==
    /\ frame = "results"
    /\ question_number = 2
    /\ Len(results) = 2
    /\ \E i, j \in DOMAIN results : results[i][3] /\ ~results[j][3]

====
